---- MODULE Spec2Model ----
(***************************************************************************)
(* pyspedas/secs/makeplots.py: the CenteredNorm colour normalisation and   *)
(* the noon-midnight meridian geometry.                                    *)
(*                                                                         *)
(* Numbers: data values, centres and half ranges are integers; a           *)
(* normalised value is the exact fraction <<numerator, denominator>>.      *)
(* Python's None is the empty tuple and a present value x is <<x>>.        *)
(***************************************************************************)
EXTENDS Integers, Sequences, FiniteSets, TLC

VARIABLES norm, op, ret, assigned, noon_midnight, plots_dir, mp

vars == <<norm, op, ret, assigned, noon_midnight, plots_dir, mp>>

---------------------------------------------------------------------------
(* Bounds of the model *)

MaxVal == 1

MaxLen == 2

MaxHalfrange == 3

Vals == (0 - MaxVal)..MaxVal

None == <<>>

Some(x) == <<x>>

OptVals == {None} \cup {Some(x) : x \in Vals}

Arrays == UNION {[1..n -> Vals] : n \in 0..MaxLen}

Abs(x) == IF x < 0 THEN 0 - x ELSE x

Max2(a, b) == IF a >= b THEN a ELSE b

ArrMin(A) == CHOOSE x \in {A[i] : i \in 1..Len(A)} : \A j \in 1..Len(A) : x <= A[j]

ArrMax(A) == CHOOSE x \in {A[i] : i \in 1..Len(A)} : \A j \in 1..Len(A) : x >= A[j]

---------------------------------------------------------------------------
(* class CenteredNorm(Normalize): methods as functions of the object *)

\* Set vmin and vmax based on vcenter and halfrange.
SetVminVmax_Swapped(self) ==
    [self EXCEPT !.vmax = Some(self.vcenter - self.halfrange[1]),
                 !.vmin = Some(self.vcenter + self.halfrange[1])]

set_vmin_vmax(self) ==
    [self EXCEPT !.vmax = Some(self.vcenter + self.halfrange[1]),
                 !.vmin = Some(self.vcenter - self.halfrange[1])]

\* A.min() of an empty array raises before anything is assigned.
autoscale_raises(self, A) == A = <<>>

Autoscale_MinSpan(self, A) ==
    IF autoscale_raises(self, A) THEN self
    ELSE set_vmin_vmax([self EXCEPT !.halfrange =
             Some(IF self.vcenter - ArrMin(A) <= ArrMax(A) - self.vcenter
                  THEN self.vcenter - ArrMin(A) ELSE ArrMax(A) - self.vcenter)])

autoscale(self, A) ==
    IF autoscale_raises(self, A) THEN self
    ELSE set_vmin_vmax([self EXCEPT !.halfrange =
             Some(Max2(self.vcenter - ArrMin(A), ArrMax(A) - self.vcenter))])

AutoscaleNone_Always(self, A) ==
    IF A # <<>> THEN autoscale(self, A) ELSE self

autoscale_None(self, A) ==
    IF self.halfrange = None /\ A # <<>> THEN autoscale(self, A) ELSE self

\* vmax present and vmin absent: vcenter - None raises TypeError, after the
\* centre has been stored.
vcenter_setter_raises(self, vcenter) == self.vmax # None /\ self.vmin = None

vcenter_setter(self, vcenter) ==
    LET s1 == IF vcenter # self.vcenter THEN [self EXCEPT !.vcenter = vcenter]
              ELSE self
    IN  IF s1.vmax # None /\ ~vcenter_setter_raises(self, vcenter)
        THEN set_vmin_vmax([s1 EXCEPT !.halfrange =
                 Some(Max2(s1.vcenter - s1.vmin[1], s1.vmax[1] - s1.vcenter))])
        ELSE s1

halfrange_setter(self, halfrange) ==
    IF halfrange = None
    THEN [self EXCEPT !.halfrange = None, !.vmin = None, !.vmax = None]
    ELSE [self EXCEPT !.halfrange = Some(Abs(halfrange[1]))]

\* Normalize.__init__(vmin=None, vmax=None, clip), then the centre, then the
\* halfrange setter.
CenteredNorm_init(vcenter, halfrange, clip) ==
    halfrange_setter([vmin |-> None, vmax |-> None, clip |-> clip,
                      vcenter |-> vcenter, halfrange |-> None], halfrange)

\* The base class's linear map, Normalize.__call__ of matplotlib (the version
\* that provides _changed): autoscale_None when vmin or vmax is absent, 0 for
\* vmin = vmax, ValueError for vmin > vmax, else (value - vmin) / (vmax - vmin)
\* on the optionally clipped value.
Normalize_autoscaled(self, value) ==
    IF self.vmin = None \/ self.vmax = None THEN autoscale_None(self, value)
    ELSE self

Normalize_raises(self, value) ==
    LET s == Normalize_autoscaled(self, value)
    IN  s.vmin = None \/ s.vmax = None \/ s.vmin[1] > s.vmax[1]

Clipped(x, lo, hi) == IF x < lo THEN lo ELSE IF x > hi THEN hi ELSE x

Normalize_result(self, value, clip) ==
    LET s    == Normalize_autoscaled(self, value)
        c    == IF clip = None THEN s.clip ELSE clip[1]
        vmin == s.vmin[1]
        vmax == s.vmax[1]
    IN  IF Normalize_raises(self, value) THEN None
        ELSE [i \in 1..Len(value) |->
                 IF vmin = vmax THEN <<0, 1>>
                 ELSE <<(IF c THEN Clipped(value[i], vmin, vmax) ELSE value[i]) - vmin,
                        vmax - vmin>>]

\* CenteredNorm.__call__: enforce symmetry, then the base class's call.
Call_NoReset(self) == self

call_reset(self) ==
    IF self.halfrange # None THEN set_vmin_vmax(self) ELSE self

call_state(self, value) == Normalize_autoscaled(call_reset(self), value)

call_raises(self, value) == Normalize_raises(call_reset(self), value)

call_result(self, value, clip) == Normalize_result(call_reset(self), value, clip)

---------------------------------------------------------------------------
(* The operations on one CenteredNorm object.  op is the operation in      *)
(* progress with its arguments and ret what it returned or that it raised; *)
(* the caller takes the outcome (Return) before it starts the next one.    *)

NoRet == [raised |-> FALSE, value |-> None]

\* no make_plots call in progress, and nothing on disk under CONFIG['plots_dir']
MPIdle == [pc |-> "idle", args |-> None, fig |-> "none", made_dir |-> FALSE,
           written |-> <<>>]

NoPlots ==
    /\ plots_dir = [exists |-> FALSE, files |-> {}]
    /\ mp = MPIdle

Idle == [name |-> "idle", args |-> <<>>]

OptBool == {None, Some(TRUE), Some(FALSE)}

InitNorm ==
    \E vcenter \in Vals, halfrange \in OptVals, clip \in BOOLEAN :
        /\ norm = CenteredNorm_init(vcenter, halfrange, clip)
        /\ op = [name |-> "__init__", args |-> <<vcenter, halfrange, clip>>]
        /\ ret = NoRet
        /\ assigned = None

SetHalfrange(halfrange) ==
    /\ op = Idle
    /\ norm' = halfrange_setter(norm, halfrange)
    /\ op' = [name |-> "halfrange", args |-> <<halfrange>>]
    /\ ret' = NoRet
    /\ UNCHANGED <<assigned, noon_midnight, plots_dir, mp>>

Autoscale(A) ==
    /\ op = Idle
    /\ norm' = autoscale(norm, A)
    /\ op' = [name |-> "autoscale", args |-> <<A>>]
    /\ ret' = [raised |-> autoscale_raises(norm, A), value |-> None]
    /\ UNCHANGED <<assigned, noon_midnight, plots_dir, mp>>

AutoscaleNone(A) ==
    /\ op = Idle
    /\ norm' = autoscale_None(norm, A)
    /\ op' = [name |-> "autoscale_None", args |-> <<A>>]
    /\ ret' = NoRet
    /\ UNCHANGED <<assigned, noon_midnight, plots_dir, mp>>

\* The half range grows with every move of the centre; the model stops at
\* MaxHalfrange.
SetVcenter(vcenter) ==
    /\ op = Idle
    /\ LET s == vcenter_setter(norm, vcenter)
       IN  s.halfrange # None => Abs(s.halfrange[1]) <= MaxHalfrange
    /\ norm' = vcenter_setter(norm, vcenter)
    /\ op' = [name |-> "vcenter", args |-> <<vcenter>>]
    /\ ret' = [raised |-> vcenter_setter_raises(norm, vcenter), value |-> None]
    /\ UNCHANGED <<assigned, noon_midnight, plots_dir, mp>>

Call(value, clip) ==
    /\ op = Idle
    /\ norm' = call_state(norm, value)
    /\ op' = [name |-> "__call__", args |-> <<value, clip>>]
    /\ ret' = [raised |-> call_raises(norm, value),
               value |-> call_result(norm, value, clip)]
    /\ UNCHANGED <<assigned, noon_midnight, plots_dir, mp>>

\* Code outside the class assigns norm.vmin or norm.vmax between two
\* operations; assigned is the last such assignment since the last operation.
AssignVmin(x) ==
    /\ op = Idle
    /\ norm' = [norm EXCEPT !.vmin = x]
    /\ assigned' = <<"vmin", x>>
    /\ UNCHANGED <<op, ret, noon_midnight, plots_dir, mp>>

AssignVmax(x) ==
    /\ op = Idle
    /\ norm' = [norm EXCEPT !.vmax = x]
    /\ assigned' = <<"vmax", x>>
    /\ UNCHANGED <<op, ret, noon_midnight, plots_dir, mp>>

Return ==
    /\ op # Idle
    /\ op' = Idle
    /\ ret' = NoRet
    /\ assigned' = None
    /\ UNCHANGED <<norm, noon_midnight, plots_dir, mp>>

NextNorm ==
    \/ Return
    \/ \E h \in OptVals : SetHalfrange(h)
    \/ \E A \in Arrays : Autoscale(A)
    \/ \E A \in Arrays : AutoscaleNone(A)
    \/ \E c \in Vals : SetVcenter(c)
    \/ \E v \in Arrays, clip \in OptBool : Call(v, clip)

\* With outside assignments the arrays are the empty and the one-element ones.
ShortArrays == {A \in Arrays : Len(A) <= 1}

NextExt ==
    \/ Return
    \/ \E h \in OptVals : SetHalfrange(h)
    \/ \E A \in ShortArrays : Autoscale(A)
    \/ \E A \in ShortArrays : AutoscaleNone(A)
    \/ \E c \in Vals : SetVcenter(c)
    \/ \E v \in ShortArrays, clip \in OptBool : Call(v, clip)
    \/ \E x \in OptVals : AssignVmin(x)
    \/ \E x \in OptVals : AssignVmax(x)

Init == InitNorm /\ noon_midnight = None /\ NoPlots

Next == NextNorm

Spec == Init /\ [][Next]_vars

SpecExt == Init /\ [][NextExt]_vars

---------------------------------------------------------------------------
(* noon_midnight_meridian(dtime, delta).  A time string                    *)
(* 'YYYY-MM-DD/HH:MM:SS' is the record of its day (counted from the first  *)
(* day of the model) and its hour, minute and second fields; an angular    *)
(* step, an hour count, a longitude and a latitude are exact fractions     *)
(* <<numerator, denominator>> with a positive denominator.                 *)

MaxDay == 1

Hours == 0..23

Minutes == {0, 30, 59}

Seconds == {0, 59}

DTimes == [day : 0..MaxDay, H : Hours, M : Minutes, S : Seconds]

\* the default step 1/4 degree, steps that divide 360, steps that do not, and
\* steps beyond 360 degrees
Deltas == {<<1, 4>>, <<7, 1>>, <<30, 1>>, <<45, 1>>, <<90, 1>>, <<180, 1>>,
           <<360, 1>>, <<400, 1>>, <<720, 1>>}

\* datetime.strptime(dtime, '%Y-%m-%d/%H:%M:%S'), as seconds since the first day
strptime(dtime) == dtime.day * 86400 + dtime.H * 3600 + dtime.M * 60 + dtime.S

\* dtime[0:11] + '12:00:00'
dtime_noon_of(dtime) == [day |-> dtime.day, H |-> 12, M |-> 0, S |-> 0]

\* n_interval = 360 / delta + 1; ni_half = int(floor(n_interval / 2));
\* ni_otherhalf = int(n_interval - ni_half)
NiHalves_Even(delta) ==
    LET n_num   == 360 * delta[2] + delta[1]
        ni_half == n_num \div (2 * delta[1])
    IN  [n_interval |-> <<n_num, delta[1]>>, ni_half |-> ni_half,
         ni_otherhalf |-> ni_half]

ni_halves(delta) ==
    LET n_num   == 360 * delta[2] + delta[1]
        ni_half == n_num \div (2 * delta[1])
    IN  [n_interval |-> <<n_num, delta[1]>>, ni_half |-> ni_half,
         ni_otherhalf |-> (n_num - ni_half * delta[1]) \div delta[1]]

\* the longitudes of the noon line and of the midnight line from the seconds
\* between the time and 12:00:00 (diff_in_hours = seconds / 3600, so that
\* 15 * diff_in_hours = seconds / 240)
MeridianLons_MidnightWest(seconds) ==
    IF seconds = 0 THEN [lons_latmax |-> <<0, 1>>, lons_latmin |-> <<180, 1>>]
    ELSE IF seconds > 0
    THEN [lons_latmax |-> <<seconds, 240>>,
          lons_latmin |-> <<seconds - 180 * 240, 240>>]
    ELSE [lons_latmax |-> <<0 - seconds, 240>>,
          lons_latmin |-> <<(0 - seconds) - 180 * 240, 240>>]

MeridianLons_NoNegate(seconds) ==
    IF seconds = 0 THEN [lons_latmax |-> <<0, 1>>, lons_latmin |-> <<180, 1>>]
    ELSE IF seconds > 0
    THEN [lons_latmax |-> <<seconds, 240>>,
          lons_latmin |-> <<seconds - 180 * 240, 240>>]
    ELSE [lons_latmax |-> <<seconds, 240>>,
          lons_latmin |-> <<seconds + 180 * 240, 240>>]

meridian_lons(seconds) ==
    IF seconds = 0 THEN [lons_latmax |-> <<0, 1>>, lons_latmin |-> <<180, 1>>]
    ELSE IF seconds > 0
    THEN [lons_latmax |-> <<seconds, 240>>,
          lons_latmin |-> <<seconds - 180 * 240, 240>>]
    ELSE [lons_latmax |-> <<0 - seconds, 240>>,
          lons_latmin |-> <<(0 - seconds) + 180 * 240, 240>>]

\* np.full((1, n), x): one row of n copies of x
np_full(n, x) == <<[i \in 1..n |-> x]>>

\* np.linspace(start, stop, num)
np_linspace(start, stop, num) ==
    [i \in 1..num |->
        IF num = 1 THEN <<start, 1>>
        ELSE <<start * (num - 1) + (i - 1) * (stop - start), num - 1>>]

\* np.concatenate((a, b), axis=None) of a one-row array a and a one-row array b
concatenate_rows(a, b) == a[1] \o b[1]

noon_midnight_meridian(dtime, delta) ==
    LET ni               == ni_halves(delta)
        time_current_UTC == strptime(dtime)
        time_noon        == strptime(dtime_noon_of(dtime))
        time_diff        == time_noon - time_current_UTC
        lons             == meridian_lons(time_diff)
        lons_max_arr     == np_full(ni.ni_half, lons.lons_latmax)
        lats_max_arr     == np_linspace(-90, 90, ni.ni_half)
        lons_min_arr     == np_full(ni.ni_otherhalf, lons.lons_latmin)
        lats_min_arr     == np_linspace(90, -90, ni.ni_otherhalf)
    IN  [dtime |-> dtime, delta |-> delta,
         ni_half |-> ni.ni_half, ni_otherhalf |-> ni.ni_otherhalf,
         diff_in_hours |-> <<time_diff, 3600>>,
         lons_latmax |-> lons.lons_latmax, lons_latmin |-> lons.lons_latmin,
         lons_noonmidnight |-> concatenate_rows(lons_max_arr, lons_min_arr),
         lats_noonmidnight |-> lats_max_arr \o lats_min_arr,
         lons_noon |-> lons_max_arr[1], lats_noon |-> lats_max_arr,
         lons_midnight |-> lons_min_arr[1], lats_midnight |-> lats_min_arr]

\* One call computes the traces afresh; the caller takes them before the next.
NoonMidnightMeridian(dtime, delta) ==
    /\ noon_midnight = None
    /\ noon_midnight' = noon_midnight_meridian(dtime, delta)
    /\ UNCHANGED <<norm, op, ret, assigned, plots_dir, mp>>

ReturnNM ==
    /\ noon_midnight # None
    /\ noon_midnight' = None
    /\ UNCHANGED <<norm, op, ret, assigned, plots_dir, mp>>

\* the plots build their norm as CenteredNorm()
InitNM ==
    /\ norm = CenteredNorm_init(0, None, FALSE)
    /\ op = Idle
    /\ ret = NoRet
    /\ assigned = None
    /\ noon_midnight = None
    /\ NoPlots

NextNM ==
    \/ \E dtime \in DTimes, delta \in Deltas : NoonMidnightMeridian(dtime, delta)
    \/ ReturnNM

SpecNM == InitNM /\ [][NextNM]_vars

---------------------------------------------------------------------------
(* make_plots(dtype, dtime, vplot_sized, contour_den, s_loc, quiver_scale). *)
(* plots_dir is the directory CONFIG['plots_dir'] on disk: whether it       *)
(* exists and the image files in it.  mp is the call in progress: the step  *)
(* it is at, its arguments, the current pyplot figure, whether it created   *)
(* the directory and the files it has saved so far.  A step that fails      *)
(* raises out of make_plots; fault names the step that fails for this       *)
(* input and environment ("none": every step succeeds).  A savefig that     *)
(* raises is taken to leave no file.                                        *)

DTypes == {"EICS", "SECS", "other"}

PlotTimes == {[day |-> 0, H |-> 18, M |-> 0, S |-> 0],
              [day |-> 0, H |-> 23, M |-> 59, S |-> 59]}

Faults == {"none", "makedirs", "read_data", "vector", "save_vector", "contour",
           "save_contour"}

MPArgs == [dtype : DTypes, dtime : PlotTimes, vplot_sized : BOOLEAN,
           s_loc : BOOLEAN, fault : Faults]

\* date_nightshade.strftime('%Y%m%d%H%M%S') of a time in seconds since the
\* first day: the day, then the hour, minute and second digits
strftime(t) == <<t \div 86400, (t % 86400) \div 3600, (t % 3600) \div 60, t % 60>>

\* datetime_tp = tp[0:4] + tp[5:7] + tp[8:10] + '_' + tp[11:13] + ..., which
\* the functions compute and do not use
datetime_tp(dtime) == <<dtime.day, "_", dtime.H, dtime.M, dtime.S>>

\* CONFIG['plots_dir'] + stem + date_nightshade.strftime(...) + '.jpeg'
PlotFilename_DatetimeTp(stem, dtime) ==
    [dir |-> "plots_dir", stem |-> stem, ts |-> datetime_tp(dtime),
     ext |-> ".jpeg"]

plot_filename(stem, dtime) ==
    [dir |-> "plots_dir", stem |-> stem, ts |-> strftime(strptime(dtime)),
     ext |-> ".jpeg"]

\* make_plots: the two ifs on dtype
first_step(dtype) ==
    IF dtype = "EICS" THEN "makedirs"
    ELSE IF dtype = "SECS" THEN "makedirs" ELSE "done"

\* _make_EICS_plots draws the vector image first, _make_SECS_plots only the
\* contour image
step_after_read(dtype) == IF dtype = "EICS" THEN "vector" ELSE "contour"

contour_stem(dtype) == IF dtype = "EICS" THEN "EICS_contour_" ELSE "SECS_"

Raise == [mp EXCEPT !.pc = "raised"]

MakePlots(args) ==
    /\ mp.pc = "idle"
    /\ mp' = [MPIdle EXCEPT !.pc = first_step(args.dtype), !.args = args]
    /\ UNCHANGED <<norm, op, ret, assigned, noon_midnight, plots_dir>>

\* if not os.path.exists(CONFIG['plots_dir']): os.makedirs(CONFIG['plots_dir'])
MakeDirs ==
    /\ mp.pc = "makedirs"
    /\ IF plots_dir.exists
       THEN /\ mp' = [mp EXCEPT !.pc = "read_data"]
            /\ UNCHANGED plots_dir
       ELSE IF mp.args.fault = "makedirs"
       THEN /\ mp' = Raise
            /\ UNCHANGED plots_dir
       ELSE /\ mp' = [mp EXCEPT !.pc = "read_data", !.made_dir = TRUE]
            /\ plots_dir' = [plots_dir EXCEPT !.exists = TRUE]
    /\ UNCHANGED <<norm, op, ret, assigned, noon_midnight>>

\* dailynames, read_data_files, the columns and the contour levels
ReadData ==
    /\ mp.pc = "read_data"
    /\ mp' = IF mp.args.fault = "read_data" THEN Raise
             ELSE [mp EXCEPT !.pc = step_after_read(mp.args.dtype)]
    /\ UNCHANGED <<norm, op, ret, assigned, noon_midnight, plots_dir>>

\* plot 1 of _make_EICS_plots: the map and the quiver of unit or sized vectors
VectorImage ==
    /\ mp.pc = "vector"
    /\ mp' = IF mp.args.fault = "vector" THEN Raise
             ELSE [mp EXCEPT !.pc = "save_vector",
                             !.fig = IF mp.args.vplot_sized THEN "quiver_sized"
                                     ELSE "quiver_unit"]
    /\ UNCHANGED <<norm, op, ret, assigned, noon_midnight, plots_dir>>

\* plt.savefig(CONFIG['plots_dir'] + 'EICS' + '_vector_' + ... + '.jpeg')
SaveVector ==
    /\ mp.pc = "save_vector"
    /\ IF mp.args.fault = "save_vector"
       THEN /\ mp' = Raise
            /\ UNCHANGED plots_dir
       ELSE LET f == plot_filename("EICS_vector_", mp.args.dtime)
            IN  /\ mp' = [mp EXCEPT !.pc = "contour", !.written = Append(@, f)]
                /\ plots_dir' = [plots_dir EXCEPT !.files = @ \cup {f}]
    /\ UNCHANGED <<norm, op, ret, assigned, noon_midnight>>

\* the contour plot: the map, the terminator, the meridian traces of
\* noon_midnight_meridian(dtime, 0.25) and contourf with norm_cb = CenteredNorm()
ContourImage ==
    /\ mp.pc = "contour"
    /\ IF mp.args.fault = "contour"
       THEN /\ mp' = Raise
            /\ UNCHANGED <<norm, noon_midnight>>
       ELSE /\ mp' = [mp EXCEPT !.pc = "save_contour", !.fig = "contour"]
            /\ noon_midnight' = noon_midnight_meridian(mp.args.dtime, <<1, 4>>)
            /\ norm' = CenteredNorm_init(0, None, FALSE)
    /\ UNCHANGED <<op, ret, assigned, plots_dir>>

\* plt.savefig of the contour image, then the function returns and its
\* locals are gone
SaveContour ==
    /\ mp.pc = "save_contour"
    /\ IF mp.args.fault = "save_contour"
       THEN /\ mp' = Raise
            /\ UNCHANGED plots_dir
       ELSE LET f == plot_filename(contour_stem(mp.args.dtype), mp.args.dtime)
            IN  /\ mp' = [mp EXCEPT !.pc = "done", !.written = Append(@, f)]
                /\ plots_dir' = [plots_dir EXCEPT !.files = @ \cup {f}]
    /\ noon_midnight' = None
    /\ UNCHANGED <<norm, op, ret, assigned>>

\* the caller gets None or the exception; the files stay on disk
ReturnMP ==
    /\ mp.pc \in {"done", "raised"}
    /\ mp' = MPIdle
    /\ UNCHANGED <<norm, op, ret, assigned, noon_midnight, plots_dir>>

InitMP ==
    /\ norm = CenteredNorm_init(0, None, FALSE)
    /\ op = Idle
    /\ ret = NoRet
    /\ assigned = None
    /\ noon_midnight = None
    /\ plots_dir \in {[exists |-> FALSE, files |-> {}], [exists |-> TRUE, files |-> {}]}
    /\ mp = MPIdle

NextMP ==
    \/ \E args \in MPArgs : MakePlots(args)
    \/ MakeDirs
    \/ ReadData
    \/ VectorImage
    \/ SaveVector
    \/ ContourImage
    \/ SaveContour
    \/ ReturnMP

SpecMP == InitMP /\ [][NextMP]_vars

---------------------------------------------------------------------------
(* Properties of CenteredNorm *)

HalfrangeOf(A, vcenter) == Max2(vcenter - ArrMin(A), ArrMax(A) - vcenter)

InStep(s) ==
    /\ s.vmin = Some(s.vcenter - s.halfrange[1])
    /\ s.vmax = Some(s.vcenter + s.halfrange[1])

\* C1: in every reachable state, a set halfrange is non-negative and vmin, vmax
\* are vcenter - halfrange and vcenter + halfrange.
C1_InStepInvariant ==
    norm.halfrange # None => norm.halfrange[1] >= 0 /\ InStep(norm)

\* C2: after autoscale(A) on a non-empty A, halfrange is the larger of
\* vcenter - min(A) and max(A) - vcenter, and vmin, vmax are vcenter -/+ halfrange.
C2_AutoscaleResult ==
    (op.name = "autoscale" /\ op.args[1] # <<>>) =>
        /\ ~ret.raised
        /\ norm.halfrange = Some(HalfrangeOf(op.args[1], norm.vcenter))
        /\ InStep(norm)

C2_Witness ==
    /\ op.name = "autoscale"
    /\ Len(op.args[1]) = 2
    /\ norm.vcenter - ArrMin(op.args[1]) < ArrMax(op.args[1]) - norm.vcenter
    /\ norm.halfrange = Some(ArrMax(op.args[1]) - norm.vcenter)
    /\ norm.vmin = Some(norm.vcenter - norm.halfrange[1])

\* C3: setting halfrange to a present value h (by the setter or by the
\* constructor, which calls it) stores |h| and makes vmin = vcenter - |h| and
\* vmax = vcenter + |h|.
C3_SetterRecomputes ==
    LET h == IF op.name = "halfrange" THEN op.args[1]
             ELSE IF op.name = "__init__" THEN op.args[2] ELSE None
    IN  h # None =>
            /\ norm.halfrange = Some(Abs(h[1]))
            /\ norm.vmin = Some(norm.vcenter - Abs(h[1]))
            /\ norm.vmax = Some(norm.vcenter + Abs(h[1]))

\* C4: setting vcenter to a different centre with vmax defined recomputes
\* halfrange from the old vmin and vmax and re-derives vmin and vmax; with the
\* same centre, or vmax undefined, halfrange, vmin and vmax do not change.
C4_VcenterSetter ==
    [][op'.name = "vcenter" =>
          IF op'.args[1] # norm.vcenter /\ norm.vmax # None
          THEN /\ norm'.vcenter = op'.args[1]
               /\ norm'.halfrange = Some(Max2(op'.args[1] - norm.vmin[1],
                                              norm.vmax[1] - op'.args[1]))
               /\ InStep(norm')
          ELSE /\ norm'.halfrange = norm.halfrange
               /\ norm'.vmin = norm.vmin
               /\ norm'.vmax = norm.vmax]_vars

Symmetric(s) ==
    [s EXCEPT !.vmin = Some(s.vcenter - s.halfrange[1]),
              !.vmax = Some(s.vcenter + s.halfrange[1])]

\* C5: a call with halfrange set overwrites vmin and vmax with
\* vcenter -/+ halfrange before the base normalisation, so the outcome is the
\* base normalisation over that interval whatever vmin and vmax held, and
\* vcenter and halfrange do not change.
C5_CallResetsBounds ==
    [][(op'.name = "__call__" /\ norm.halfrange # None) =>
          /\ norm' = Symmetric(norm)
          /\ ret'.raised = Normalize_raises(Symmetric(norm), op'.args[1])
          /\ ret'.value = Normalize_result(Symmetric(norm), op'.args[1], op'.args[2])]_vars

C5_Witness ==
    /\ op.name = "__call__"
    /\ op.args[1] # <<>>
    /\ assigned # None
    /\ assigned[2] # None
    /\ norm.halfrange # None
    /\ norm.halfrange[1] > 0
    /\ assigned[1] = "vmin"
    /\ assigned[2] # norm.vmin
    /\ ~ret.raised

MirrorPair ==
    /\ op.name = "__call__"
    /\ norm.halfrange # None
    /\ Len(op.args[1]) = 2
    /\ op.args[1][1] <= norm.vcenter
    /\ norm.vcenter - op.args[1][1] <= norm.halfrange[1]
    /\ op.args[1][2] - norm.vcenter = norm.vcenter - op.args[1][1]

MirrorResult ==
    LET lo == ret.value[1]
        hi == ret.value[2]
        d  == norm.vcenter - op.args[1][1]
    IN  /\ lo[1] * hi[2] + hi[1] * lo[2] = lo[2] * hi[2]
        /\ d = norm.halfrange[1] => lo[1] = 0 /\ hi[1] = hi[2]
        /\ d = 0 => 2 * lo[1] = lo[2]

\* C6: evaluate(vcenter - d) and evaluate(vcenter + d) sum to 1 for
\* 0 <= d <= halfrange; vcenter - halfrange goes to 0, vcenter to 1/2 and
\* vcenter + halfrange to 1.
C6_SymmetricAnyHalfrange ==
    MirrorPair => ~ret.raised /\ MirrorResult

\* C6 (amended): the same for a halfrange greater than 0; with halfrange 0 every
\* value is mapped to 0.
C6_SymmetricPositiveHalfrange ==
    MirrorPair =>
        /\ ~ret.raised
        /\ norm.halfrange[1] > 0 => MirrorResult
        /\ norm.halfrange[1] = 0 => ret.value = <<(<<0, 1>>), (<<0, 1>>)>>

C6_Witness ==
    /\ MirrorPair
    /\ norm.halfrange[1] = 2
    /\ norm.vcenter - op.args[1][1] = 1
    /\ ret.value = <<(<<1, 4>>), (<<3, 4>>)>>

\* C7: autoscale_None autoscales only when halfrange is unset and the data is
\* non-empty; with halfrange set it changes nothing, and with empty data an
\* unset halfrange stays unset.
C7_AutoscaleNone ==
    [][op'.name = "autoscale_None" =>
          /\ norm.halfrange # None => norm' = norm
          /\ (norm.halfrange = None /\ op'.args[1] = <<>>) => norm' = norm
          /\ (norm.halfrange = None /\ op'.args[1] # <<>>) =>
                 /\ norm'.halfrange = Some(HalfrangeOf(op'.args[1], norm.vcenter))
                 /\ InStep(norm')
                 /\ norm'.vcenter = norm.vcenter]_vars

C7_Witness ==
    /\ op.name = "autoscale_None"
    /\ op.args[1] # <<>>
    /\ norm.halfrange # None
    /\ norm.halfrange # Some(HalfrangeOf(op.args[1], norm.vcenter))

---------------------------------------------------------------------------
(* Properties of noon_midnight_meridian *)

\* equality of two fractions
RatEq(a, b) == a[1] * b[2] = b[1] * a[2]

AllEq(seq, x) == \A i \in 1..Len(seq) : RatEq(seq[i], x)

\* value % 360 of Python, on a fraction
Mod360(a) == <<a[1] % (360 * a[2]), a[2]>>

Is18(dtime) == dtime.H = 18 /\ dtime.M = 0 /\ dtime.S = 0

Computed == noon_midnight # None

\* C8: at 18:00:00 of any day the noon longitude is 90 and the midnight
\* longitude is -90, raw as well as modulo 360.
C8_RawMidnightMinus90 ==
    (Computed /\ Is18(noon_midnight.dtime)) =>
        /\ RatEq(noon_midnight.lons_latmax, <<90, 1>>)
        /\ RatEq(noon_midnight.lons_latmin, <<-90, 1>>)
        /\ AllEq(noon_midnight.lons_noon, <<90, 1>>)
        /\ AllEq(noon_midnight.lons_midnight, <<-90, 1>>)
        /\ RatEq(Mod360(noon_midnight.lons_latmax), Mod360(<<90, 1>>))
        /\ RatEq(Mod360(noon_midnight.lons_latmin), Mod360(<<-90, 1>>))

\* C8 (amended): at 18:00:00 of any day the noon longitude is 90 and the
\* midnight longitude is 270, which is -90 modulo 360.
C8_RawMidnight270 ==
    (Computed /\ Is18(noon_midnight.dtime)) =>
        /\ RatEq(noon_midnight.diff_in_hours, <<-6, 1>>)
        /\ RatEq(noon_midnight.lons_latmax, <<90, 1>>)
        /\ RatEq(noon_midnight.lons_latmin, <<270, 1>>)
        /\ AllEq(noon_midnight.lons_noon, <<90, 1>>)
        /\ AllEq(noon_midnight.lons_midnight, <<270, 1>>)
        /\ RatEq(Mod360(noon_midnight.lons_latmax), Mod360(<<90, 1>>))
        /\ RatEq(Mod360(noon_midnight.lons_latmin), Mod360(<<-90, 1>>))

C8_Witness ==
    /\ Computed
    /\ Is18(noon_midnight.dtime)
    /\ noon_midnight.dtime.day = 1
    /\ Len(noon_midnight.lons_noon) = 720
    /\ Len(noon_midnight.lons_midnight) = 721
    /\ noon_midnight.lons_midnight[721] = <<64800, 240>>

SecondsToNoon(dtime) == 12 * 3600 - (dtime.H * 3600 + dtime.M * 60 + dtime.S)

\* C9: diff_hours, from the time to 12:00:00 of its day, lies in [-12, 12];
\* 0 gives noon 0 and midnight 180, a positive one noon 15 * diff_hours and
\* midnight noon - 180, a negative one noon -15 * diff_hours and midnight
\* noon + 180; the noon trace carries the noon longitude in every element and
\* the midnight trace the midnight longitude.
C9_LongitudesFromDiffHours ==
    Computed =>
        LET sec      == SecondsToNoon(noon_midnight.dtime)
            diff     == noon_midnight.diff_in_hours
            noon     == noon_midnight.lons_latmax
            midnight == noon_midnight.lons_latmin
        IN  /\ RatEq(diff, <<sec, 3600>>)
            /\ -12 * diff[2] <= diff[1] /\ diff[1] <= 12 * diff[2]
            /\ sec = 0 => RatEq(noon, <<0, 1>>) /\ RatEq(midnight, <<180, 1>>)
            /\ sec > 0 => /\ RatEq(noon, <<15 * diff[1], diff[2]>>)
                          /\ RatEq(midnight, <<noon[1] - 180 * noon[2], noon[2]>>)
            /\ sec < 0 => /\ RatEq(noon, <<-15 * diff[1], diff[2]>>)
                          /\ RatEq(midnight, <<noon[1] + 180 * noon[2], noon[2]>>)
            /\ AllEq(noon_midnight.lons_noon, noon)
            /\ AllEq(noon_midnight.lons_midnight, midnight)

C9_Witness ==
    /\ Computed
    /\ noon_midnight.dtime = [day |-> 1, H |-> 23, M |-> 59, S |-> 59]
    /\ Len(noon_midnight.lons_noon) = 6
    /\ noon_midnight.lons_noon[6] = <<43199, 240>>
    /\ noon_midnight.lons_midnight[7] = <<86399, 240>>

TraceShape(midnightLen) ==
    LET num   == noon_midnight.delta[1]
        n_num == 360 * noon_midnight.delta[2] + num
        half  == Len(noon_midnight.lons_noon)
    IN  /\ 2 * half * num <= n_num /\ n_num < 2 * (half + 1) * num
        /\ Len(noon_midnight.lats_noon) = half
        /\ Len(noon_midnight.lons_midnight) = Len(noon_midnight.lats_midnight)
        /\ midnightLen
        /\ noon_midnight.lons_noonmidnight =
               noon_midnight.lons_noon \o noon_midnight.lons_midnight
        /\ noon_midnight.lats_noonmidnight =
               noon_midnight.lats_noon \o noon_midnight.lats_midnight
        /\ Len(noon_midnight.lons_noonmidnight) =
               Len(noon_midnight.lons_noon) + Len(noon_midnight.lons_midnight)
        /\ Len(noon_midnight.lats_noonmidnight) =
               Len(noon_midnight.lats_noon) + Len(noon_midnight.lats_midnight)

\* C10: with n = 360 / delta + 1 the noon trace has floor(n / 2) points, the
\* midnight trace n - floor(n / 2) points, and the full trace, longitudes and
\* latitudes alike, is the noon trace followed by the midnight trace.
C10_MidnightExactRest ==
    Computed =>
        TraceShape(Len(noon_midnight.lons_midnight) * noon_midnight.delta[1] =
                       (360 * noon_midnight.delta[2] + noon_midnight.delta[1])
                       - Len(noon_midnight.lons_noon) * noon_midnight.delta[1])

\* C10 (amended): the midnight trace has n - floor(n / 2) points rounded down
\* to a whole number, which is n - floor(n / 2) when delta divides 360.
C10_MidnightRestRoundedDown ==
    Computed =>
        LET num  == noon_midnight.delta[1]
            rest == (360 * noon_midnight.delta[2] + num)
                    - Len(noon_midnight.lons_noon) * num
            m    == Len(noon_midnight.lons_midnight)
        IN  TraceShape(m * num <= rest /\ rest < (m + 1) * num)

C10_Witness ==
    /\ Computed
    /\ noon_midnight.delta = <<7, 1>>
    /\ Len(noon_midnight.lons_noon) = 26
    /\ Len(noon_midnight.lons_midnight) = 26
    /\ Len(noon_midnight.lats_noonmidnight) = 52
    /\ noon_midnight.lats_noonmidnight[26] = <<2250, 25>>
    /\ noon_midnight.lats_noonmidnight[27] = <<2250, 25>>

---------------------------------------------------------------------------
(* Properties of make_plots *)

\* C11: a make_plots call that fails leaves no image file written by that
\* call; in particular a failure in the EICS contour image does not leave the
\* vector image saved.
C11_NoFileAfterFailure ==
    mp.pc = "raised" => mp.written = <<>>

ExpectedFile(stem, dtime) ==
    [dir |-> "plots_dir", stem |-> stem,
     ts |-> <<dtime.day, dtime.H, dtime.M, dtime.S>>, ext |-> ".jpeg"]

ExpectedWritten(args) ==
    IF args.dtype = "SECS" THEN <<ExpectedFile("SECS_", args.dtime)>>
    ELSE IF args.dtype = "EICS"
    THEN <<ExpectedFile("EICS_vector_", args.dtime),
           ExpectedFile("EICS_contour_", args.dtime)>>
    ELSE <<>>

\* C12: for well-formed input make_plots raises nothing; it creates the plots
\* directory first when it is absent and leaves it when present; 'SECS' writes
\* exactly SECS_<ts>.jpeg, 'EICS' writes EICS_vector_<ts>.jpeg and then
\* EICS_contour_<ts>.jpeg; the SECS path never draws or writes a vector image.
C12_WellFormedWrites ==
    /\ [][(mp.pc = "makedirs" /\ mp.args.fault = "none" /\ mp' # mp) =>
             /\ mp'.pc = "read_data"
             /\ plots_dir'.exists
             /\ plots_dir'.files = plots_dir.files
             /\ mp'.made_dir = ~plots_dir.exists
             /\ mp'.written = <<>>]_vars
    /\ []((mp.pc # "idle" /\ mp.args.fault = "none") =>
             /\ mp.pc # "raised"
             /\ mp.pc = "done" =>
                    /\ mp.written = ExpectedWritten(mp.args)
                    /\ \A k \in 1..Len(mp.written) :
                           mp.written[k] \in plots_dir.files
             /\ mp.args.dtype = "SECS" =>
                    /\ mp.pc \notin {"vector", "save_vector"}
                    /\ \A k \in 1..Len(mp.written) :
                           mp.written[k].stem # "EICS_vector_")

C12_Witness ==
    /\ mp.pc = "done"
    /\ mp.args.dtype = "SECS"
    /\ mp.args.vplot_sized
    /\ mp.args.dtime.H = 23
    /\ ~mp.made_dir
    /\ mp.written = <<ExpectedFile("SECS_", mp.args.dtime)>>
    /\ plots_dir.files = {ExpectedFile("SECS_", mp.args.dtime),
                          ExpectedFile("EICS_vector_", mp.args.dtime),
                          ExpectedFile("EICS_contour_", mp.args.dtime)}

====
